---- MODULE Spec2Model ----
(***************************************************************************)
(* A model of jpa::Terse (src/include/Terse.hpp): the multi-frame store,   *)
(* the block encoder f_compress, the decoder prolix and the lazy frame     *)
(* index f_find_terse_frame.  Bit offset p of the packed buffer is bit      *)
(* p % 8 (least significant first) of byte p / 8.                          *)
(* Bit_pointer.hpp is not part of the sources at hand: the Bit_pointer and *)
(* Bit_range operations are modelled from sections 4.1 and 4.2 of the      *)
(* specification (the operators BitsOf, ReadBit, ReadBits, get_value).     *)
(***************************************************************************)
EXTENDS Integers, Sequences, FiniteSets, TLC

(* ---------------------------- bounds ----------------------------------- *)
MaxLen == 2         \* longest frame pushed
MaxFrames == 3      \* most frames held by a store
MaxBlock == 2       \* largest block size given to the constructor
DefaultBlock == 12  \* unsigned const d_block = 12

(* ------------------------- integer types ------------------------------- *)
Pow2(n) == 2 ^ n

Min(a, b) == IF a < b THEN a ELSE b
Max(a, b) == IF a < b THEN b ELSE a

\* A fixed-width integer type: its width in bits and std::is_signed_v.
IntTypes == [bits : {8, 16}, sgn : BOOLEAN]
TMin(T) == IF T.sgn THEN 0 - Pow2(T.bits - 1) ELSE 0
TMax(T) == IF T.sgn THEN Pow2(T.bits - 1) - 1 ELSE Pow2(T.bits) - 1
SizeOf(T) == T.bits \div 8

\* Conversion of an int to the type T (modular, C++20 [conv.integral]).
ToType(v, T) ==
    LET u == v % Pow2(T.bits)
    IN  IF T.sgn /\ u >= Pow2(T.bits - 1) THEN u - Pow2(T.bits) ELSE u

\* Bitwise OR of two naturals.
RECURSIVE BitOr(_, _)
BitOr(a, b) ==
    IF a = 0 THEN b
    ELSE IF b = 0 THEN a
    ELSE Max(a % 2, b % 2) + 2 * BitOr(a \div 2, b \div 2)

\* std::abs(int): the operand is promoted to int, where 8 and 16 bit values
\* have an exact magnitude.
Abs(v) == IF v < 0 THEN 0 - v ELSE v

(* --------------------- Bit_pointer / Bit_range ------------------------- *)
\* The w low bits of the two's complement representation of v, bit 0 first.
BitsOf(v, w) == [i \in 1..w |-> ((v % Pow2(w)) \div Pow2(i - 1)) % 2]

\* The bit at bit offset pos of the buffer, bit 0 of a byte first; a bit
\* outside the buffer is whatever the memory behind the vector holds (oob).
ReadBit(data, pos, oob) ==
    IF pos \div 8 < Len(data)
    THEN (data[pos \div 8 + 1] \div Pow2(pos % 8)) % 2
    ELSE oob

\* The n bits at bit offset pos, bit 0 first.
ReadBits(data, pos, n, oob) == [i \in 1..n |-> ReadBit(data, pos + i - 1, oob)]

\* The unsigned value of a bit sequence, bit 0 first.
RECURSIVE ValueFrom(_, _)
ValueFrom(bits, i) ==
    IF i > Len(bits) THEN 0 ELSE bits[i] + 2 * ValueFrom(bits, i + 1)
ValueOf(bits) == ValueFrom(bits, 1)

\* Bit_range::get_range for one value: the w-bit field b read into the
\* output type T.  Sign-extended from bit w-1 for a signed T, zero-extended
\* for an unsigned T; saturated when T is narrower than w.
get_value(b, T) ==
    LET w == Len(b)
        low == SubSeq(b, 1, T.bits)
    IN  IF T.sgn
        THEN IF w <= T.bits
             THEN ValueOf(b) - (IF b[w] = 1 THEN Pow2(w) ELSE 0)
             ELSE IF \A i \in T.bits..w : b[i] = b[w]
                  THEN ValueOf(low) - (IF b[w] = 1 THEN Pow2(T.bits) ELSE 0)
                  ELSE IF b[w] = 1 THEN TMin(T) ELSE TMax(T)
        ELSE IF w <= T.bits
             THEN ValueOf(b)
             ELSE IF \E i \in (T.bits + 1)..w : b[i] = 1
                  THEN TMax(T)
                  ELSE ValueOf(low)

\* Bit_range::append_range: each value as a w-bit field, in order.
RECURSIVE append_range(_, _)
append_range(vals, w) ==
    IF Len(vals) = 0 THEN <<>>
    ELSE BitsOf(Head(vals), w) \o append_range(Tail(vals), w)

(* ------------------------------ encoder -------------------------------- *)
\* The loop of f_highest_set_bit's unsigned branch.
RECURSIVE HighBit(_)
HighBit(u) == IF u = 0 THEN 0 ELSE 1 + HighBit(u \div 2)

f_highest_set_bit(val, T) ==
    IF T.sgn
    THEN IF val = 0 THEN 0 ELSE 1 + HighBit(Abs(val) % Pow2(T.bits))
    ELSE HighBit(val)

\* setbits after the loop over one block: the OR of the values (unsigned)
\* or of std::abs of the values (signed), accumulated in a variable of the
\* value type T.
RECURSIVE SetBits(_, _, _)
SetBits(vals, T, acc) ==
    IF Len(vals) = 0 THEN acc
    ELSE SetBits(Tail(vals), T,
                 IF T.sgn
                 THEN ToType(BitOr(acc % Pow2(T.bits), Abs(Head(vals))), T)
                 ELSE BitOr(acc, Head(vals)))

BlockWidth(vals, T) == f_highest_set_bit(SetBits(vals, T, 0), T)

\* The header with the test prevbits == significant_bits never true: every
\* block announces its width.
HeaderBitsNoRepeat(w, prevbits) ==
    IF w < 7 THEN <<0>> \o BitsOf(w, 3)
    ELSE IF w < 10 THEN <<0>> \o BitsOf(7 + (w - 7) * 8, 5)
    ELSE <<0>> \o BitsOf(31 + (w - 10) * 32, 11)

\* The header with the first bound one too high: width 7 is written in the
\* three bit field.
HeaderBitsSeven(w, prevbits) ==
    IF prevbits = w THEN <<1>>
    ELSE IF w <= 7 THEN <<0>> \o BitsOf(w, 3)
    ELSE IF w < 10 THEN <<0>> \o BitsOf(7 + (w - 7) * 8, 5)
    ELSE <<0>> \o BitsOf(31 + (w - 10) * 32, 11)

\* The header bits f_compress writes for a block of width w after a block
\* of width prevbits.
HeaderBits(w, prevbits) ==
    IF prevbits = w THEN <<1>>
    ELSE IF w < 7 THEN <<0>> \o BitsOf(w, 3)
    ELSE IF w < 10 THEN <<0>> \o BitsOf(7 + (w - 7) * 8, 5)
    ELSE <<0>> \o BitsOf(31 + (w - 10) * 32, 11)

\* d_prolix_bits = significant_bits: the width of the block just encoded.
UpdateProlixBitsLast(prolix_bits, w) == w

\* d_prolix_bits = std::max(d_prolix_bits, significant_bits).
UpdateProlixBits(prolix_bits, w) == Max(prolix_bits, w)

\* The loop of f_compress from value index `from` on: the bits written, the
\* widths of the blocks and d_prolix_bits after the loop.
RECURSIVE EncodeBlocks(_, _, _, _, _, _)
EncodeBlocks(vals, T, block, from, prevbits, prolix_bits) ==
    IF from >= Len(vals)
    THEN [bits |-> <<>>, widths |-> <<>>, prolix_bits |-> prolix_bits]
    ELSE LET to == Min(Len(vals), from + block)
             blk == SubSeq(vals, from + 1, to)
             w == BlockWidth(blk, T)
             rest == EncodeBlocks(vals, T, block, from + block, w,
                                  UpdateProlixBits(prolix_bits, w))
         IN  [bits |-> HeaderBits(w, prevbits)
                        \o (IF w # 0 THEN append_range(blk, w) ELSE <<>>)
                        \o rest.bits,
              widths |-> <<w>> \o rest.widths,
              prolix_bits |-> rest.prolix_bits]

\* The number of bytes f_compress grows the buffer by before encoding:
\* ceil(d_size * (sizeof(value) + 12.0 / (d_block * 8))).
GrowBytes(size, T, block) ==
    size * SizeOf(T) + (12 * size + 8 * block - 1) \div (8 * block)

\* The bytes holding a bit sequence, padded with zero bits.
Bytes(bits, n) ==
    [j \in 1..n |->
        ValueOf(SubSeq(bits, Min(Len(bits), 8 * j - 8) + 1, Min(Len(bits), 8 * j)))]

\* f_compress: the buffer, d_prolix_bits and the record of the push.  Bits
\* the encoder writes past the grown buffer are outside the vector; the
\* final resize fills the bytes it adds with zero.
f_compress(data, vals, T, block, prolix_bits) ==
    LET prev_data_size == Len(data)
        grow == GrowBytes(Len(vals), T, block)
        enc == EncodeBlocks(vals, T, block, 0, 0, prolix_bits)
        size == 1 + (prev_data_size * 8 + Len(enc.bits)) \div 8
        inside == SubSeq(enc.bits, 1, Min(Len(enc.bits), grow * 8))
    IN  [data |-> data \o Bytes(inside, size - prev_data_size),
         prolix_bits |-> enc.prolix_bits,
         push |-> [type |-> T, vals |-> vals, widths |-> enc.widths,
                   start |-> prev_data_size, grow |-> grow, size |-> size,
                   overrun |-> Len(enc.bits) > grow * 8]]

(* ------------------------------ decoder -------------------------------- *)
\* The header parse shared by prolix and f_find_terse_frame: the width of
\* the block and the cursor behind the header.
ParseHeader(data, pos, significant_bits, oob) ==
    IF ReadBit(data, pos, oob) = 0
    THEN LET w3 == ValueOf(ReadBits(data, pos + 1, 3, oob))
             w5 == w3 + ValueOf(ReadBits(data, pos + 4, 2, oob))
             w11 == w5 + ValueOf(ReadBits(data, pos + 6, 6, oob))
         IN  IF w3 # 7 THEN [w |-> w3, pos |-> pos + 4]
             ELSE IF w5 # 10 THEN [w |-> w5, pos |-> pos + 6]
             ELSE [w |-> w11, pos |-> pos + 12]
    ELSE [w |-> significant_bits, pos |-> pos + 1]

\* The loop of f_find_terse_frame: the cursor after the last block.
RECURSIVE ScanBlocks(_, _, _, _, _, _, _)
ScanBlocks(data, pos, size, block, from, significant_bits, oob) ==
    IF from >= size THEN pos
    ELSE LET h == ParseHeader(data, pos, significant_bits, oob)
         IN  ScanBlocks(data, h.pos + h.w * block, size, block, from + block, h.w, oob)

\* f_find_terse_frame: d_terse_frames after the call.  The pointer it
\* returns is d_terse_data.data() + d_terse_frames[frame].
RECURSIVE f_find_terse_frame(_, _, _, _, _, _)
f_find_terse_frame(frames, data, size, block, frame, oob) ==
    IF frame > 0 /\ frames[frame + 1] = 0
    THEN LET found == f_find_terse_frame(frames, data, size, block, frame - 1, oob)
             terse_begin == found[frame] * 8
             bitp == ScanBlocks(data, terse_begin, size, block, 0, 0, oob)
         IN  [found EXCEPT ![frame + 1] = 1 + (bitp - terse_begin) \div 8]
    ELSE frames

\* The values of one block read by get_range.
RECURSIVE get_range(_, _, _, _, _, _)
get_range(data, pos, w, n, T, oob) ==
    IF n = 0 THEN <<>>
    ELSE <<get_value(ReadBits(data, pos, w, oob), T)>>
         \o get_range(data, pos + w, w, n - 1, T, oob)

\* The loop of prolix: the values written and the cursor after the last block.
RECURSIVE DecodeBlocks(_, _, _, _, _, _, _, _)
DecodeBlocks(data, pos, size, block, from, significant_bits, T, oob) ==
    IF from >= size THEN [out |-> <<>>, pos |-> pos]
    ELSE LET h == ParseHeader(data, pos, significant_bits, oob)
             n == Min(size, from + block) - from
             rest == DecodeBlocks(data, h.pos + h.w * n, size, block,
                                  from + block, h.w, T, oob)
         IN  [out |-> (IF h.w = 0 THEN [i \in 1..n |-> 0]
                       ELSE get_range(data, h.pos, h.w, n, T, oob)) \o rest.out,
              pos |-> rest.pos]

\* prolix(begin, frame) past its assertions: the values written and
\* d_terse_frames after the call.
prolix(frames, data, size, block, frame, T, oob) ==
    LET found == f_find_terse_frame(frames, data, size, block, frame, oob)
        terse_begin == found[frame + 1] * 8
        dec == DecodeBlocks(data, terse_begin, size, block, 0, 0, T, oob)
    IN  [out |-> dec.out,
         frames |-> IF Len(found) > frame + 1
                    THEN [found EXCEPT ![frame + 2] = 1 + (dec.pos - terse_begin) \div 8]
                    ELSE found]

(* ------------------------------- state --------------------------------- *)
VARIABLES
    d_signed,        \* bool d_signed
    d_block,         \* unsigned const d_block
    d_size,          \* std::size_t d_size
    d_prolix_bits,   \* unsigned d_prolix_bits
    d_dim,           \* std::vector<std::size_t> d_dim
    d_terse_data,    \* std::vector<std::uint8_t> d_terse_data
    d_terse_frames,  \* std::vector<std::size_t> d_terse_frames
    pushed,          \* history: one record per frame compressed
    last,            \* the last call made on the object and its arguments
    out,             \* the values the last prolix call wrote to its sink
    err              \* "none", or the assertion that aborted the program

vars == <<d_signed, d_block, d_size, d_prolix_bits, d_dim, d_terse_data,
          d_terse_frames, pushed, last, out, err>>

(* ------------------------------- inputs -------------------------------- *)
\* The value types of the frames pushed.
DataTypes == {T \in IntTypes : T.bits = 16}

\* The frames pushed, four of each length 1..MaxLen: all zero; small values
\* (3, 0, 3, ... or -3, 0, -3, ...); middle values, whose highest bit within
\* the block's width is set (160, 5, 160, ... or -96, 5, -96, ...: the same
\* 8 bit fields); and extreme values (the maximum, 3, the maximum, ... or
\* the minimum, the maximum, the minimum, ...).
Zeros(n) == [i \in 1..n |-> 0]
Smalls(T, n) == [i \in 1..n |-> IF i % 2 = 0 THEN 0 ELSE IF T.sgn THEN 0 - 3 ELSE 3]
Mids(T, n) == [i \in 1..n |-> IF i % 2 = 0 THEN 5 ELSE IF T.sgn THEN 0 - 96 ELSE 160]
Extremes(T, n) ==
    [i \in 1..n |-> IF T.sgn THEN (IF i % 2 = 0 THEN TMax(T) ELSE TMin(T))
                    ELSE (IF i % 2 = 0 THEN 3 ELSE TMax(T))]
FramesOf(T) ==
    UNION {{Zeros(n), Smalls(T, n), Mids(T, n), Extremes(T, n)} : n \in 1..MaxLen}

\* The block sizes given to Terse(Iterator, size, block).
BlockSizes == 1..MaxBlock \cup {DefaultBlock}

\* The dim() of the containers pushed (NoDim is a container without dim()),
\* and the dimensions given to dim(vector).
NoDim == <<0>>
ContainerShapes == {<<2>>}
DimShapes == {<<1>>}

number_of_frames == Len(d_terse_frames)

Call(op, frame, T, len) == [op |-> op, frame |-> frame, type |-> T, len |-> len]
NoType == [bits |-> 0, sgn |-> FALSE]

\* What a read or write outside a vector can do: nothing visible (FALSE),
\* or the other outcome (TRUE) as well when it happens.
Outcomes(outside) == IF outside THEN BOOLEAN ELSE {FALSE}

(* ---------------------------- construction ----------------------------- *)
\* Terse(){}: d_signed and d_size are left uninitialised.
TerseDefault ==
    /\ d_signed \in BOOLEAN
    /\ d_size \in 0..MaxLen
    /\ d_block = DefaultBlock
    /\ d_prolix_bits = 0
    /\ d_dim = <<>>
    /\ d_terse_data = <<>>
    /\ d_terse_frames = <<>>
    /\ pushed = <<>>
    /\ last = Call("Terse", 0, NoType, 0)
    /\ out = <<>>
    /\ err = "none"

\* Terse(Iterator data, size_t size, unsigned block = 12), and
\* Terse(Container const&), which delegates to it and then copies dim().
TerseData ==
    \E T \in DataTypes : \E vals \in FramesOf(T) :
    \E block \in BlockSizes : \E dim \in ContainerShapes \cup {NoDim} :
        LET c == f_compress(<<>>, vals, T, block, 0)
        IN  \E crash \in Outcomes(c.push.overrun) :
            /\ dim # NoDim => block = DefaultBlock
            /\ d_signed = T.sgn
            /\ d_size = Len(vals)
            /\ d_block = block
            /\ d_prolix_bits = c.prolix_bits
            /\ d_dim = (IF dim = NoDim THEN <<>> ELSE dim)
            /\ d_terse_data = c.data
            /\ d_terse_frames = <<0>>
            /\ pushed = <<c.push>>
            /\ last = Call("Terse", 0, T, Len(vals))
            /\ out = <<>>
            /\ err = (IF crash THEN "heap overrun" ELSE "none")

Init == TerseDefault \/ TerseData

(* ------------------------------ operations ----------------------------- *)
\* A failed assert aborts the program: nothing but err changes.  The call
\* is recorded with the arguments read up to the failed assertion.
Abort(call, what) ==
    /\ err' = what
    /\ last' = call
    /\ out' = <<>>
    /\ UNCHANGED <<d_signed, d_block, d_size, d_prolix_bits, d_dim,
                   d_terse_data, d_terse_frames, pushed>>

\* The size assertion compiled out.
SizeUnchecked(vals) == FALSE

\* The assertions of push_back(Iterator, size) on a store that holds frames.
SizeDiffers(vals) == d_size # Len(vals)
SignDiffers(T) == d_signed # T.sgn

\* push_back(Iterator const data, size_t const size), with d_dim as the
\* caller (push_back(Container)) left it.
PushFrame(vals, T, dim) ==
    LET call == Call("push_back", number_of_frames, T, Len(vals))
    IN  IF number_of_frames # 0 /\ SizeDiffers(vals)
        THEN Abort(Call("push_back", number_of_frames, NoType, Len(vals)),
                   "ShapeMismatch")
        ELSE IF number_of_frames # 0 /\ SignDiffers(T)
        THEN Abort(call, "SignednessMismatch")
        ELSE LET c == f_compress(d_terse_data, vals, T, d_block, d_prolix_bits)
             IN  \E crash \in Outcomes(c.push.overrun) :
                 /\ d_size' = (IF number_of_frames = 0 THEN Len(vals) ELSE d_size)
                 /\ d_signed' = (IF number_of_frames = 0 THEN T.sgn ELSE d_signed)
                 /\ d_terse_frames' = Append(d_terse_frames, 0)
                 /\ d_terse_data' = c.data
                 /\ d_prolix_bits' = c.prolix_bits
                 /\ pushed' = Append(pushed, c.push)
                 /\ d_dim' = dim
                 /\ last' = call
                 /\ out' = <<>>
                 /\ err' = (IF crash THEN "heap overrun" ELSE "none")
                 /\ UNCHANGED d_block

\* push_back(Iterator, size) called directly, or push_back(Container) with
\* a container that has no dim().
PushBack ==
    /\ err = "none"
    /\ number_of_frames < MaxFrames
    /\ \E T \in DataTypes : \E vals \in FramesOf(T) : PushFrame(vals, T, d_dim)

\* push_back(Container const&) with a container that has dim().  On an
\* empty store the dimensions are appended to d_dim; otherwise each is
\* compared with d_dim[i], which is outside d_dim when d_dim is shorter
\* (the comparison then yields either result).
PushBackContainer ==
    /\ err = "none"
    /\ number_of_frames < MaxFrames
    /\ \E T \in DataTypes : \E vals \in FramesOf(T) : \E dim \in ContainerShapes :
       \E beyond \in Outcomes(number_of_frames # 0 /\ Len(d_dim) < Len(dim)) :
        LET call == Call("push_back", number_of_frames, NoType, 0)
            differs == \E i \in 1..Len(dim) :
                          IF i <= Len(d_dim) THEN d_dim[i] # dim[i] ELSE beyond
        IN  IF number_of_frames = 0
            THEN PushFrame(vals, T, d_dim \o dim)
            ELSE IF differs
            THEN Abort(call, "ShapeMismatch")
            ELSE PushFrame(vals, T, d_dim)

\* dim(std::vector<std::size_t> const& dim).
Dim ==
    /\ err = "none"
    /\ \E dim \in DimShapes :
        IF Len(d_dim) # 0
        THEN Abort(Call("dim", 0, NoType, 0), "ShapeAlreadySet")
        ELSE /\ d_dim' = dim
             /\ last' = Call("dim", 0, NoType, 0)
             /\ out' = <<>>
             /\ UNCHANGED <<d_signed, d_block, d_size, d_prolix_bits,
                            d_terse_data, d_terse_frames, pushed, err>>

\* The signedness assertion compiled out.
SignUnchecked(T) == FALSE

\* The assertion of prolix on the signedness of the output type.
SignedIntoUnsigned(T) == d_signed /\ ~T.sgn

\* prolix(Iterator begin, std::size_t frame) with a sink of type T.  Bits
\* read outside the buffer have the value oob.
ProlixFrame(frame, T, oob) ==
    IF ~(frame < number_of_frames)
    THEN Abort(Call("prolix", frame, NoType, 0), "FrameIndexOutOfRange")
    ELSE /\ last' = Call("prolix", frame, T, d_size)
         /\ IF SignedIntoUnsigned(T)
            THEN /\ err' = "SignednessMismatch"
                 /\ d_terse_frames' = f_find_terse_frame(d_terse_frames, d_terse_data,
                                                         d_size, d_block, frame, oob)
                 /\ out' = <<>>
            ELSE LET p == prolix(d_terse_frames, d_terse_data, d_size, d_block,
                                 frame, T, oob)
                 IN  /\ err' = "none"
                     /\ d_terse_frames' = p.frames
                     /\ out' = p.out
         /\ UNCHANGED <<d_signed, d_block, d_size, d_prolix_bits,
                        d_dim, d_terse_data, pushed>>

Prolix ==
    /\ err = "none"
    /\ \E frame \in 0..Min(number_of_frames, MaxFrames - 1) :
       \E T \in IntTypes : \E oob \in {0, 1} : ProlixFrame(frame, T, oob)

\* prolix(Container& data, std::size_t frame) with a std::vector of len
\* elements of a 16 bit type: asserts the size, then calls prolix(data.begin(), frame).
ProlixContainer ==
    /\ err = "none"
    /\ \E len \in 1..MaxLen :
        IF d_size # len
        THEN Abort(Call("prolix", 0, NoType, len), "ShapeMismatch")
        ELSE \E frame \in 0..Min(number_of_frames, MaxFrames - 1) :
             \E T \in DataTypes : \E oob \in {0, 1} : ProlixFrame(frame, T, oob)

Next == PushBack \/ PushBackContainer \/ Dim \/ Prolix \/ ProlixContainer

Spec == Init /\ [][Next]_vars

(* ------------------------------ properties ----------------------------- *)
\* The last call was a prolix call that returned.
Unpacked == last.op = "prolix" /\ err = "none"

\* No push ran past the end of the grown buffer.
NoOverrun == \A i \in DOMAIN pushed : ~pushed[i].overrun

\* d_terse_frames with no offset resolved.
Unresolved == [i \in 1..number_of_frames |-> 0]

\* C1: round trip of a single frame.  When the store holds one frame and it
\* is unpacked into a type of the frame's signedness that is at least
\* d_prolix_bits wide, the values written are the values pushed.  (Stated for
\* pushes that stayed inside the grown buffer.)
C1_RoundTrip ==
    (/\ Unpacked
     /\ Len(pushed) = 1
     /\ NoOverrun
     /\ last.type.sgn = pushed[1].type.sgn
     /\ last.type.bits >= d_prolix_bits)
    => out = pushed[1].vals

\* C2: indexed decode.  The first prolix call on a store, for any frame k,
\* writes the k-th frame pushed.  (Stated for unsigned stores whose frame
\* length is a multiple of the block size and whose pushes stayed inside the
\* grown buffer, unpacked into the value type.)
C2_IndexedDecode ==
    [][(/\ d_terse_frames = Unresolved
        /\ last'.op = "prolix"
        /\ err' = "none"
        /\ ~d_signed
        /\ NoOverrun
        /\ d_size % d_block = 0
        /\ last'.type = pushed[last'.frame + 1].type)
       => out' = pushed[last'.frame + 1].vals]_vars

\* C3: offset determinism.  For every frame k > 0 the offset that the scan
\* of f_find_terse_frame memoises for k equals the offset that prolix of
\* frame k-1 memoises for k.  (Stated for pushes that stayed inside the
\* grown buffer.)
C3_OffsetDeterminism ==
    (err = "none" /\ NoOverrun) =>
    \A k \in 1..(number_of_frames - 1) : \A oob \in {0, 1} :
        LET frames == [d_terse_frames EXCEPT ![k + 1] = 0]
        IN  f_find_terse_frame(frames, d_terse_data, d_size, d_block, k, oob)[k + 1]
            = prolix(frames, d_terse_data, d_size, d_block, k - 1,
                     pushed[1].type, oob).frames[k + 1]

\* C4: materialisation is unobservable.  Whatever calls came before, prolix
\* of frame k writes what it writes as the first call on the store.  (Stated
\* for pushes that stayed inside the grown buffer.)
C4_MaterialisationUnobservable ==
    (Unpacked /\ NoOverrun) =>
    \E oob \in {0, 1} :
        out = prolix(Unresolved, d_terse_data, d_size, d_block,
                     last.frame, last.type, oob).out

\* The value v saturated to the type T.
Saturated(v, T) == IF v > TMax(T) THEN TMax(T) ELSE IF v < TMin(T) THEN TMin(T) ELSE v

\* C5: saturation law.  A frame unpacked into a type narrower than the width
\* of a block decodes each value of that block to the value saturated to the
\* type; in particular the signed frame [minimum, maximum] with block size 2
\* decodes to [minimum, maximum] of the next narrower signed type.
C5_Saturation ==
    (/\ Unpacked
     /\ Len(pushed) = 1
     /\ NoOverrun
     /\ last.type.sgn = pushed[1].type.sgn)
    => /\ \A i \in 1..d_size :
            last.type.bits < pushed[1].widths[(i - 1) \div d_block + 1]
            => out[i] = Saturated(pushed[1].vals[i], last.type)
       /\ (/\ pushed[1].vals = <<TMin(pushed[1].type), TMax(pushed[1].type)>>
           /\ pushed[1].type.sgn
           /\ d_block = 2
           /\ last.type.bits < pushed[1].type.bits)
          => out = <<TMin(last.type), TMax(last.type)>>

\* C6: size bound.  Every push adds at most the bytes the buffer was grown
\* by, and the encoder stays inside the grown buffer.
C6_SizeBound ==
    \A i \in DOMAIN pushed :
        /\ pushed[i].size - pushed[i].start <= pushed[i].grow
        /\ ~pushed[i].overrun

\* The largest width of any block of any frame pushed (0 when there is none).
RECURSIVE MaxOf(_)
MaxOf(seq) == IF Len(seq) = 0 THEN 0 ELSE Max(Head(seq), MaxOf(Tail(seq)))
MaxWidth == MaxOf([i \in DOMAIN pushed |-> MaxOf(pushed[i].widths)])

\* C7: width monotonicity.  d_prolix_bits is always the largest width of any
\* block pushed so far, and no step decreases it.
C7_WidthMonotone ==
    /\ [](d_prolix_bits = MaxWidth)
    /\ [][d_prolix_bits' >= d_prolix_bits]_vars

\* A later frame is narrower than an earlier one, so d_prolix_bits is not
\* the width of the last block pushed.
C7_Witness ==
    /\ Len(pushed) >= 2
    /\ d_prolix_bits > MaxOf(pushed[Len(pushed)].widths)
    /\ MaxOf(pushed[Len(pushed)].widths) > 0

\* C8: prolix of a frame of a signed store into an unsigned type fails with
\* SignednessMismatch and writes nothing.
C8_SignedIntoUnsignedFails ==
    (/\ last.op = "prolix"
     /\ last.type \in IntTypes
     /\ last.frame < number_of_frames
     /\ d_signed
     /\ ~last.type.sgn)
    => (err = "SignednessMismatch" /\ out = <<>>)

\* A frame other than the first was asked for, into an unsigned type.
C8_Witness ==
    /\ last.op = "prolix"
    /\ err = "SignednessMismatch"
    /\ last.frame > 0
    /\ ~last.type.sgn
    /\ d_signed

\* C9: push_back on a store that holds a frame, with a frame of another
\* length or signedness, fails and leaves the frames, the buffer, the
\* offsets and d_prolix_bits as they were.
C9_MismatchedPushFails ==
    [][(/\ number_of_frames >= 1
        /\ last'.op = "push_back"
        /\ (last'.len # d_size \/ last'.type.sgn # d_signed))
       => (/\ err' \in {"ShapeMismatch", "SignednessMismatch"}
           /\ UNCHANGED <<d_terse_frames, d_terse_data, d_prolix_bits>>)]_vars

\* A frame of another length was pushed onto a store that holds two frames.
C9_Witness ==
    /\ last.op = "push_back"
    /\ err = "ShapeMismatch"
    /\ last.len # d_size
    /\ last.len > 0
    /\ number_of_frames = 2

\* C10: immutability.  Once the store holds a frame, d_signed, d_block and
\* d_size never change, and a non-empty d_dim never changes.
C10_Immutable ==
    [][/\ number_of_frames >= 1
          => (d_signed' = d_signed /\ d_block' = d_block /\ d_size' = d_size)
       /\ d_dim # <<>> => d_dim' = d_dim]_vars

\* The width of the block that holds value i of frame k (both from 1).
WidthAt(k, i) == pushed[k].widths[(i - 1) \div d_block + 1]

\* C11: unsigned into signed.  Frame 0 of an unsigned store unpacked into a
\* signed type at least d_prolix_bits wide decodes every value to the value
\* pushed, but for a value that is all ones in its field, which decodes to
\* -1.  (Stated for pushes that stayed inside the grown buffer.)
C11_UnsignedIntoSigned ==
    (/\ Unpacked
     /\ last.frame = 0
     /\ NoOverrun
     /\ ~d_signed
     /\ last.type.sgn
     /\ last.type.bits >= d_prolix_bits)
    => \A i \in 1..d_size :
          out[i] = (IF /\ WidthAt(1, i) > 0
                       /\ pushed[1].vals[i] = Pow2(WidthAt(1, i)) - 1
                    THEN 0 - 1
                    ELSE pushed[1].vals[i])

\* The bytes of frame k as f_compress left them, and its number of blocks.
FrameBytes(k) == SubSeq(d_terse_data, pushed[k].start + 1, pushed[k].size)
NumBlocks(k) == Len(pushed[k].widths)
Ones(n) == [j \in 1..n |-> 1]

\* Frame k is an all-zero unsigned frame.
ZeroFrame(k) ==
    /\ ~pushed[k].type.sgn
    /\ \A i \in DOMAIN pushed[k].vals : pushed[k].vals[i] = 0

\* C12 as stated: an all-zero unsigned frame is written as the four bits
\* "0 000" for the first block and the bit "1" for every later block, with
\* no value bits, in as many bytes as hold these bits.
C12_ZeroFrameAnnounced ==
    \A k \in DOMAIN pushed :
        ZeroFrame(k) =>
            LET bits == <<0, 0, 0, 0>> \o Ones(NumBlocks(k) - 1)
            IN  FrameBytes(k) = Bytes(bits, (Len(bits) + 7) \div 8)

\* C12 as amended: an all-zero unsigned frame is written as the bit "1" for
\* every block, the first one too (its width 0 equals the initial previous
\* width), with no value bits, in 1 + (number of blocks) / 8 bytes.
C12_ZeroFrameAllRepeat ==
    \A k \in DOMAIN pushed :
        ZeroFrame(k) =>
            /\ \A j \in 1..NumBlocks(k) : pushed[k].widths[j] = 0
            /\ FrameBytes(k) = Bytes(Ones(NumBlocks(k)), 1 + NumBlocks(k) \div 8)

\* An all-zero unsigned frame of two blocks follows a frame that is not zero.
C12_Witness ==
    /\ err = "none"
    /\ Len(pushed) >= 2
    /\ ZeroFrame(2)
    /\ NumBlocks(2) = 2
    /\ ~ZeroFrame(1)

\* The bitwise OR of the exact magnitudes of a sequence of values.
RECURSIVE OrOfMagnitudes(_)
OrOfMagnitudes(vals) ==
    IF Len(vals) = 0 THEN 0
    ELSE BitOr(Abs(Head(vals)), OrOfMagnitudes(Tail(vals)))

\* The reference width of a block: the bit length of the OR of the values
\* (unsigned), or of the OR of their magnitudes plus 1 (signed); 0 when all
\* values are 0.
RefWidth(vals, T) ==
    LET m == OrOfMagnitudes(vals)
    IN  IF m = 0 THEN 0 ELSE HighBit(m) + (IF T.sgn THEN 1 ELSE 0)

\* The values of block j of frame k (both from 1).
BlockOf(k, j) ==
    SubSeq(pushed[k].vals, (j - 1) * d_block + 1,
           Min(Len(pushed[k].vals), j * d_block))

\* C14: block width computation.  The width f_compress used for every block
\* of every frame pushed is the reference width of the block's values, also
\* for blocks that hold the type's minimum alone or with other values.
C14_BlockWidth ==
    \A k \in DOMAIN pushed : \A j \in 1..NumBlocks(k) :
        pushed[k].widths[j] = RefWidth(BlockOf(k, j), pushed[k].type)

\* C16: representation of the frame offsets.  Under Spec, d_terse_frames
\* has one entry per frame pushed, entry 0 is 1, and every entry k is 0 or
\* 1 + the byte offset at which f_compress began to write frame k.
C16_FrameOffsets ==
    /\ Len(d_terse_frames) = Len(pushed)
    /\ number_of_frames >= 1 => d_terse_frames[1] = 1
    /\ \A k \in 1..Len(pushed) :
          d_terse_frames[k] \in {0, 1 + pushed[k].start}

(* ---------------------- the header grammar alone ----------------------- *)
\* The largest width a header can announce: 10 plus a six bit field.
MaxHeaderWidth == 73

\* The width sequences of the frames encoded: one block per value
\* (d_block = 1), up to MaxLen blocks, every width a header can announce.
WidthSeqs == UNION {[1..n -> 0..MaxHeaderWidth] : n \in 1..MaxLen}

\* The w bit field of the value 2^(w-1), the smallest unsigned value of
\* width w: bit w-1 set, bit 0 first.
TopBitField(w) == [i \in 1..w |-> IF i = w THEN 1 ELSE 0]

\* The loop of f_compress over blocks of one value of an unsigned type wide
\* enough for it, the value of block j being 2^(ws[j]-1) (0 for width 0):
\* the bits written and the number of header bits of each block.
RECURSIVE EncodeWidths(_, _)
EncodeWidths(ws, prevbits) ==
    IF Len(ws) = 0 THEN [bits |-> <<>>, hdr |-> <<>>]
    ELSE LET w == Head(ws)
             h == HeaderBits(w, prevbits)
             rest == EncodeWidths(Tail(ws), w)
         IN  [bits |-> h \o TopBitField(w) \o rest.bits,
              hdr |-> <<Len(h)>> \o rest.hdr]

\* The loop of f_find_terse_frame: the width and the number of header bits
\* it parses for each block.
RECURSIVE ScanHeaders(_, _, _, _, _, _, _)
ScanHeaders(data, pos, size, block, from, significant_bits, oob) ==
    IF from >= size THEN <<>>
    ELSE LET h == ParseHeader(data, pos, significant_bits, oob)
         IN  <<[w |-> h.w, hdr |-> h.pos - pos]>>
             \o ScanHeaders(data, h.pos + h.w * block, size, block,
                            from + block, h.w, oob)

\* The loop of prolix: the width and the number of header bits it parses
\* for each block.
RECURSIVE ProlixHeaders(_, _, _, _, _, _, _)
ProlixHeaders(data, pos, size, block, from, significant_bits, oob) ==
    IF from >= size THEN <<>>
    ELSE LET h == ParseHeader(data, pos, significant_bits, oob)
             n == Min(size, from + block) - from
         IN  <<[w |-> h.w, hdr |-> h.pos - pos]>>
             \o ProlixHeaders(data, h.pos + h.w * n, size, block,
                              from + block, h.w, oob)

\* Terse(data, size, 1) for a frame whose blocks have the widths ws.
HeaderInit ==
    \E ws \in WidthSeqs :
        LET enc == EncodeWidths(ws, 0)
        IN  /\ d_signed = FALSE
            /\ d_size = Len(ws)
            /\ d_block = 1
            /\ d_prolix_bits = MaxOf(ws)
            /\ d_dim = <<>>
            /\ d_terse_data = Bytes(enc.bits, 1 + Len(enc.bits) \div 8)
            /\ d_terse_frames = <<0>>
            /\ pushed = <<[widths |-> ws, hdr |-> enc.hdr]>>
            /\ last = Call("Terse", 0, NoType, Len(ws))
            /\ out = <<>>
            /\ err = "none"

\* The header parse of f_find_terse_frame over frame 0; out records the
\* width and the header bits of each block.
ScanFrame ==
    /\ err = "none"
    /\ \E oob \in {0, 1} :
        out' = ScanHeaders(d_terse_data, 0, d_size, d_block, 0, 0, oob)
    /\ last' = Call("f_find_terse_frame", 0, NoType, d_size)
    /\ UNCHANGED <<d_signed, d_block, d_size, d_prolix_bits, d_dim,
                   d_terse_data, d_terse_frames, pushed, err>>

\* The header parse of prolix over frame 0; out records the width and the
\* header bits of each block.
UnpackFrame ==
    /\ err = "none"
    /\ \E oob \in {0, 1} :
        out' = ProlixHeaders(d_terse_data, 0, d_size, d_block, 0, 0, oob)
    /\ last' = Call("prolix", 0, NoType, d_size)
    /\ UNCHANGED <<d_signed, d_block, d_size, d_prolix_bits, d_dim,
                   d_terse_data, d_terse_frames, pushed, err>>

HeaderNext == ScanFrame \/ UnpackFrame

SpecHeader == HeaderInit /\ [][HeaderNext]_vars

\* The number of header bits of the grammar for width w after width w_prev.
HeaderLen(w, w_prev) ==
    IF w = w_prev THEN 1 ELSE IF w <= 6 THEN 4 ELSE IF w <= 9 THEN 6 ELSE 12

\* C15: header grammar symmetry.  For every sequence of widths in 0..73 the
\* encoder writes 1 header bit for a width equal to the previous one
\* (initially 0), else 4 bits up to 6, 6 bits for 7..9 and 12 bits from 10
\* on; and the header parse of prolix and of f_find_terse_frame recovers
\* the same widths, consuming the same number of header bits for each block.
C15_HeaderSymmetry ==
    LET ws == pushed[1].widths
    IN  /\ \A j \in 1..Len(ws) :
            pushed[1].hdr[j] = HeaderLen(ws[j], IF j = 1 THEN 0 ELSE ws[j - 1])
        /\ last.op \in {"prolix", "f_find_terse_frame"}
           => out = [j \in 1..Len(ws) |-> [w |-> ws[j], hdr |-> pushed[1].hdr[j]]]

\* The widest header, then a six bit header, parsed back by prolix.
C15_Witness ==
    /\ last.op = "prolix"
    /\ Len(pushed[1].widths) = 2
    /\ pushed[1].widths[1] = MaxHeaderWidth
    /\ pushed[1].widths[2] \in 7..9
    /\ Len(out) = 2

====
